---- MODULE Spec2Model ----
(***************************************************************************)
(* requestspool: a multiprocessing pool giving every worker task its own   *)
(* "special" object (a requests.Session by default).                        *)
(*                                                                         *)
(* The module models RequestsPool (src/requestspool.py): construction,      *)
(* map()/starmap(), the two wrap functions that run inside the pool         *)
(* processes, and the behaviour of multiprocessing.Pool.starmap that the    *)
(* code relies on (chunking of the submitted tasks, workers taking chunks   *)
(* from the task queue, MapResult gathering the chunk results).             *)
(***************************************************************************)
EXTENDS Integers, Sequences, FiniteSets, TLC

(* ---------------------------- bounds ----------------------------------- *)
\* largest `processes` argument tried by the constructor
MaxProcs == 2
\* longest iterable handed to map()/starmap()
MaxLen == 3
\* largest explicit chunksize argument
MaxChunk == 2
\* number of map()/starmap() calls made on one pool
MaxCalls == 2
\* what os.cpu_count() returns on the modelled machine
CpuCount == 2
\* number of times the pool is released (__exit__ is called)
MaxExits == 2

\* the second element of every starmap item, an argument tuple <<item, Timeout>>
Timeout == "t"

VARIABLES
    status,     \* "new" | "constructed" | "ctor_error" : outcome of __init__
    processes,  \* self.processes
    pool,       \* self.pool: [state, size] of the multiprocessing.Pool
    call,       \* the current map()/starmap() call and its arguments
    tasks,      \* the submitted worker tasks, one per subsequence
    workers,    \* the pool's worker processes: the chunk and task each one is
                \* running and the number of special objects it built in this call
    nextChunk,  \* index of the next chunk of tasks waiting in the pool's task queue
    mapresult,  \* the pool's MapResult for the current call
    nspecial,   \* number of objects special_func has returned in the current call
    ret,        \* what the last map()/starmap() call gave back to its caller
    ncalls,     \* number of map()/starmap() calls started
    ctorArg,    \* the `processes` argument the constructor was called with
    __dict__,   \* self.__dict__: the attributes of the RequestsPool object
    shipped,    \* the state last pickled with a wrap function for the workers
    scope,      \* the caller's `with` block and the releases made so far
    successes   \* the calls that returned a result, and their special_func calls

\* the variables of the object's life cycle, untouched by the worker processes
lifeVars == <<__dict__, shipped, scope, successes>>

vars == <<ncalls, status, processes, pool, workers, nextChunk, nspecial,
          ctorArg, lifeVars, call, tasks, mapresult, ret>>

(* ------------------------- pure helpers -------------------------------- *)
Min(a, b) == IF a < b THEN a ELSE b

\* number of indices i in 0..n-1 with i % step = start, i.e. len(seq[start::step])
SliceLen(n, start, step) ==
    IF start >= n THEN 0 ELSE ((n - 1 - start) \div step) + 1

\* iterable[start::step] with a zero-based start
Slice(iterable, start, step) ==
    [j \in 1..SliceLen(Len(iterable), start, step) |->
        iterable[start + (j - 1) * step + 1]]

\* a splitter cutting the sequence into consecutive blocks of ceil(N/P) items
_split_items_blocks(iterable, split_in) ==
    [k \in 1..(IF split_in > 0 THEN split_in ELSE 0) |->
        LET size == (Len(iterable) + split_in - 1) \div split_in
        IN SubSeq(iterable, Min((k - 1) * size, Len(iterable)) + 1,
                  Min(k * size, Len(iterable)))]

\* a splitter whose slices start one position late: range(1, split_in + 1)
_split_items_late(iterable, split_in) ==
    [k \in 1..(IF split_in > 0 THEN split_in ELSE 0) |->
        Slice(iterable, k, split_in)]

\* _split_items: for i in range(split_in): yield iterable[i::split_in]
\* (range(split_in) is empty when split_in <= 0)
_split_items(iterable, split_in) ==
    [k \in 1..(IF split_in > 0 THEN split_in ELSE 0) |->
        Slice(iterable, k - 1, split_in)]

RECURSIVE Concat(_)
Concat(seqs) ==
    IF Len(seqs) = 0 THEN << >> ELSE Head(seqs) \o Concat(Tail(seqs))

\* a flattening that walks the sublists from the last to the first
_flatten_or_not_reversed(flatten, iterable) ==
    IF flatten
    THEN Concat([k \in 1..Len(iterable) |-> iterable[Len(iterable) + 1 - k]])
    ELSE iterable

\* an un-flattened result that leaves out the empty sublists
_flatten_or_not_nonempty(flatten, iterable) ==
    IF flatten THEN Concat(iterable)
    ELSE SelectSeq(iterable, LAMBDA sub : Len(sub) > 0)

\* _flatten_or_not: [i for sub in iterable for i in sub] if flatten else iterable
_flatten_or_not(flatten, iterable) ==
    IF flatten THEN Concat(iterable) ELSE iterable

\* `x or default` for the processes argument (None and 0 are both falsy)
OrDefault(given, x, default) ==
    IF (~given) \/ x = 0 THEN default ELSE x

\* multiprocessing.Pool(processes): None means os.cpu_count(); < 1 raises ValueError
PoolProcesses(given, x) == IF given THEN x ELSE CpuCount
PoolRaises(given, x) == PoolProcesses(given, x) < 1

\* a starmap wrap function that passes the item as it is
FuncArgs_nounpack(star, item, special) == <<item, special>>

\* what the target function is called with: func(item, special) for map,
\* func(*item, special) for starmap
FuncArgs(star, item, special) ==
    IF star THEN Append(item, special) ELSE <<item, special>>

\* the target function is opaque: its return value records the arguments it got
Func(args) == [args |-> args]

\* Pool._map_async: chunksize None -> ceil(len(iterable) / (4 * len(pool)))
EffectiveChunksize(given, chunksize, ntasks, poolsize) ==
    IF given THEN chunksize
    ELSE (ntasks \div (poolsize * 4))
         + (IF ntasks % (poolsize * 4) # 0 THEN 1 ELSE 0)

\* MapResult: number of chunks = length//chunksize + bool(length % chunksize)
NumChunks(ntasks, chunksize) ==
    (ntasks \div chunksize) + (IF ntasks % chunksize # 0 THEN 1 ELSE 0)

\* tasks of chunk c (1-based): Pool._get_tasks slices the task list in order
ChunkFirst(c, chunksize) == (c - 1) * chunksize + 1
ChunkLast(c, chunksize, ntasks) == Min(c * chunksize, ntasks)

(* --------------------------- initial state ----------------------------- *)
NoCall == [phase |-> "idle", star |-> FALSE, iterable |-> << >>,
           flatten |-> TRUE, chunksize |-> 0, rejected |-> FALSE]
NoResult == [success |-> TRUE, value |-> << >>, number_left |-> 0, exc |-> 0]
NoRet == [raised |-> FALSE, value |-> << >>]
IdleWorker == [chunk |-> 0, task |-> 0, built |-> 0, alive |-> TRUE]
NoScope == [state |-> "out", propagated |-> FALSE, exits |-> 0,
            exitRaised |-> FALSE]
NoPool == [state |-> "NONE", size |-> 0, initializer |-> "None",
           initargs |-> << >>]

Init ==
    /\ status = "new"
    /\ processes = 0
    /\ pool = NoPool
    /\ call = NoCall
    /\ tasks = << >>
    /\ workers = << >>
    /\ nextChunk = 1
    /\ mapresult = NoResult
    /\ nspecial = 0
    /\ ret = NoRet
    /\ ncalls = 0
    /\ ctorArg = [given |-> FALSE, x |-> 0]
    /\ __dict__ = << >>
    /\ shipped = << >>
    /\ scope = NoScope
    /\ successes = [n |-> 0, factory |-> 0]

(* --------------------------- construction ------------------------------ *)
\* the other constructor arguments: the defaults for the special object, and
\* a worker initializer, which goes to multiprocessing.Pool only
SpecialFunc == "requests.Session"
Initializer == "initializer"

\* the attributes __init__ assigns before it builds the pool
Attributes(n) ==
    [a \in {"processes", "special_func", "special_args", "special_kwargs"} |->
        CASE a = "processes" -> n
          [] a = "special_func" -> SpecialFunc
          [] OTHER -> << >>]

\* a dict with one more entry
SetItem(d, key, value) ==
    [a \in DOMAIN d \cup {key} |-> IF a = key THEN value ELSE d[a]]

\* RequestsPool.__init__ with processes = x (given) or None (not given);
\* poolGiven/poolArg is what is handed on to multiprocessing.Pool
ConstructWith(given, x, poolGiven, poolArg) ==
    /\ status = "new"
    /\ ctorArg' = [given |-> given, x |-> x]
    /\ processes' = OrDefault(given, x, CpuCount)
    /\ IF PoolRaises(poolGiven, poolArg)
         THEN \* Pool.__init__ raises ValueError before starting any worker
              /\ status' = "ctor_error"
              /\ __dict__' = Attributes(OrDefault(given, x, CpuCount))
              /\ UNCHANGED <<pool, workers>>
         ELSE /\ status' = "constructed"
              /\ pool' = [state |-> "RUN",
                          size |-> PoolProcesses(poolGiven, poolArg),
                          initializer |-> Initializer,
                          initargs |-> << >>]
              /\ workers' = [p \in 1..PoolProcesses(poolGiven, poolArg)
                               |-> IdleWorker]
              /\ __dict__' = SetItem(Attributes(OrDefault(given, x, CpuCount)),
                                     "pool", "Pool")
    /\ UNCHANGED <<call, tasks, nextChunk, mapresult, nspecial, ret, ncalls,
                   shipped, scope, successes>>

\* a constructor that hands self.processes (after `or os.cpu_count()`) to the Pool
__init___defaulted(given, x) ==
    ConstructWith(given, x, TRUE, OrDefault(given, x, CpuCount))

\* the constructor hands the raw `processes` argument to multiprocessing.Pool
__init__(given, x) == ConstructWith(given, x, given, x)

(* ------------------------- map() / starmap() --------------------------- *)
NoneEntry == [set |-> FALSE, list |-> << >>]

\* the local `special` of a wrap function that has not built its object yet
NoSpecial == <<0, 0>>

NewTask(subsequence) ==
    [subsequence |-> subsequence, pc |-> "queued", special |-> NoSpecial,
     nfactory |-> 0, ninvoked |-> 0, cur |-> << >>, out |-> << >>,
     raised |-> FALSE]

\* a __getstate__ that hands out the whole __dict__, pool included
__getstate___whole(d) == d

\* __getstate__: self_dict = self.__dict__.copy(); del self_dict['pool']
__getstate__(d) == [a \in DOMAIN d \ {"pool"} |-> d[a]]

\* a __getstate__ that deletes 'pool' from self.__dict__ itself, not from a copy
AfterGetstate_inplace(d) == [a \in DOMAIN d \ {"pool"} |-> d[a]]

\* self.__dict__ after __getstate__ has run: untouched, the deletion is made
\* on a copy
AfterGetstate(d) == d

\* a split into as many subsequences as processes times chunksize
Partitions_perchunk(iterable, n, csGiven, chunksize) ==
    _split_items(iterable, IF csGiven THEN n * chunksize ELSE n)

\* the subsequences handed to the pool: _split_items(iterable, self.processes),
\* whatever the chunksize
Partitions(iterable, n, csGiven, chunksize) == _split_items(iterable, n)

\* a pool that takes work in any state
_check_running_skipped(pl) == TRUE

\* Pool._check_running: work is accepted only while the pool is in state RUN,
\* otherwise ValueError("Pool not running")
_check_running(pl) == pl.state = "RUN"

\* self.pool.starmap(wrap_func, product((func,), _split_items(iterable,
\* self.processes)), chunksize): one task per subsequence, cut into chunks;
\* the bound wrap function is pickled for the workers with the object's state
Submit(star, iterable, csGiven, chunksize, flatten) ==
    /\ status = "constructed"
    /\ scope.state \in {"in", "done"}
    /\ "pool" \in DOMAIN __dict__
    /\ call.phase \in {"idle", "returned", "raised"}
    /\ scope.state = "in" => call.phase # "raised"
    /\ ncalls < MaxCalls
    /\ LET parts == Partitions(iterable, processes, csGiven, chunksize)
           cs == EffectiveChunksize(csGiven, chunksize, Len(parts), pool.size)
       IN IF _check_running(pool)
          THEN /\ call' = [phase |-> "running", star |-> star,
                           iterable |-> iterable, flatten |-> flatten,
                           chunksize |-> cs, rejected |-> FALSE]
               /\ tasks' = [k \in 1..Len(parts) |-> NewTask(parts[k])]
               /\ mapresult' = [success |-> TRUE,
                                value |-> [k \in 1..Len(parts) |-> NoneEntry],
                                number_left |-> NumChunks(Len(parts), cs),
                                exc |-> 0]
               /\ workers' = [p \in DOMAIN workers |->
                                [IdleWorker EXCEPT !.alive = workers[p].alive]]
               /\ ret' = NoRet
               /\ shipped' = __getstate__(__dict__)
               /\ __dict__' = AfterGetstate(__dict__)
          ELSE \* the pool raises before it looks at the tasks: the call
               \* with no items stands for every call
               /\ iterable = << >> /\ ~csGiven /\ flatten
               /\ call' = [NoCall EXCEPT !.phase = "raised",
                                         !.chunksize = cs,
                                         !.rejected = TRUE]
               /\ tasks' = << >>
               /\ mapresult' = NoResult
               /\ ret' = [raised |-> TRUE, value |-> << >>]
               /\ UNCHANGED <<workers, shipped, __dict__>>
    /\ nextChunk' = 1
    /\ ncalls' = ncalls + 1
    /\ nspecial' = 0
    /\ UNCHANGED <<status, processes, pool, ctorArg, scope, successes>>

\* the iterables tried: at most MaxLen items, each told apart from the others
\* (the item at position i is the one-element string <<i>> for map, and the
\* argument tuple <<i, Timeout>> for starmap)
MapIterables == {[i \in 1..n |-> <<i>>] : n \in 0..MaxLen}
StarIterables == {[i \in 1..n |-> <<i, Timeout>>] : n \in 0..MaxLen}

map(iterable, csGiven, chunksize, flatten) ==
    Submit(FALSE, iterable, csGiven, chunksize, flatten)

starmap(iterable, csGiven, chunksize, flatten) ==
    Submit(TRUE, iterable, csGiven, chunksize, flatten)

(* ---------------- the pool's worker processes -------------------------- *)
NChunks == NumChunks(Len(tasks), call.chunksize)

\* MapResult._set(i, (success, result)) for chunk c with task results `result`;
\* `k` is the task whose exception is reported when success is FALSE
_set(mr, c, success, result, k) ==
    IF success /\ mr.success
    THEN [mr EXCEPT !.number_left = @ - 1,
                    !.value = [j \in 1..Len(@) |->
                        IF /\ j >= ChunkFirst(c, call.chunksize)
                           /\ j <= ChunkLast(c, call.chunksize, Len(tasks))
                        THEN [set |-> TRUE,
                              list |-> result[j - ChunkFirst(c, call.chunksize) + 1]]
                        ELSE @[j]]]
    ELSE IF (~success) /\ mr.success
    THEN \* only the first exception is stored, the gathered values are dropped
         [mr EXCEPT !.number_left = @ - 1, !.success = FALSE,
                    !.value = << >>, !.exc = k]
    ELSE [mr EXCEPT !.number_left = @ - 1]

\* a worker process takes the next chunk of tasks from the pool's task queue
\* and enters the wrap function of the chunk's first task; idle workers with
\* the same history are interchangeable, the first of them stands for all
TakeChunk(p) ==
    /\ call.phase = "running"
    /\ workers[p].alive
    /\ workers[p].chunk = 0
    /\ \A q \in 1..(p - 1) : workers[q] # workers[p]
    /\ nextChunk <= NChunks
    /\ workers' = [workers EXCEPT ![p].chunk = nextChunk,
                                  ![p].task = ChunkFirst(nextChunk, call.chunksize)]
    /\ tasks' = [tasks EXCEPT ![ChunkFirst(nextChunk, call.chunksize)].pc = "start"]
    /\ nextChunk' = nextChunk + 1
    /\ UNCHANGED <<status, processes, pool, call, mapresult, nspecial, ret,
                   ncalls, ctorArg,
                   lifeVars>>

\* the wrap function of task k raised in worker p: starmapstar stops, the rest
\* of the chunk is never run, and the chunk is reported as failed; the list
\* the comprehension was building is lost with the frame, unless `partial`
RaiseWith(p, k, partial) ==
    /\ tasks' = [j \in 1..Len(tasks) |->
                    IF j = k
                    THEN [tasks[j] EXCEPT !.pc = "failed", !.cur = << >>,
                                          !.out = IF partial THEN @ ELSE << >>,
                                          !.raised = TRUE]
                    ELSE IF /\ j > k
                            /\ j <= ChunkLast(workers[p].chunk, call.chunksize,
                                              Len(tasks))
                    THEN [tasks[j] EXCEPT !.pc = "skipped"]
                    ELSE tasks[j]]
    /\ mapresult' = _set(mapresult, workers[p].chunk, FALSE, << >>, k)
    /\ workers' = [workers EXCEPT ![p].chunk = 0, ![p].task = 0]

\* a wrap function that keeps the results it had when func raised
Raise_partial(p, k) == RaiseWith(p, k, TRUE)

\* an exception leaves the wrap function: nothing of its list survives
Raise(p, k) == RaiseWith(p, k, FALSE)

\* objects kept from the first call and handed out again in the later ones
NewSpecial_cached(c, n) == <<1, n + 1>>

\* one object per call, built once and handed to every task
NewSpecial_shared(c, n) == <<c, 1>>

\* the object returned by the (n+1)-th successful special_func call of call c:
\* a new one, named by the call and its rank in the call
NewSpecial(c, n) == <<c, n + 1>>

\* special = self.special_func(*self.special_args, **self.special_kwargs)
CallSpecial(p) ==
    /\ call.phase = "running"
    /\ workers[p].task # 0
    /\ LET k == workers[p].task IN
        /\ tasks[k].pc = "start"
        /\ \E ok \in BOOLEAN :
            IF ok
            THEN /\ tasks' = [tasks EXCEPT ![k].special = NewSpecial(ncalls, nspecial),
                                           ![k].nfactory = @ + 1,
                                           ![k].pc = "loop"]
                 /\ workers' = [workers EXCEPT ![p].built = @ + 1]
                 /\ nspecial' = nspecial + 1
                 /\ UNCHANGED mapresult
            ELSE /\ Raise(p, k)
                 /\ UNCHANGED nspecial
    /\ UNCHANGED <<status, processes, pool, call, nextChunk, ret, ncalls, ctorArg,
                   lifeVars>>

\* a comprehension that walks the subsequence from its end
NextItem_backwards(k) ==
    tasks[k].subsequence[Len(tasks[k].subsequence) - Len(tasks[k].out)]

\* `for item in subsequence`: the item after those already handled
NextItem(k) == tasks[k].subsequence[Len(tasks[k].out) + 1]

\* the list comprehension calls func on the next item of the subsequence
BeginFunc(p) ==
    /\ call.phase = "running"
    /\ workers[p].task # 0
    /\ LET k == workers[p].task IN
        /\ tasks[k].pc = "loop"
        /\ Len(tasks[k].out) < Len(tasks[k].subsequence)
        /\ tasks' = [tasks EXCEPT
              ![k].pc = "infunc",
              ![k].ninvoked = @ + 1,
              ![k].cur = FuncArgs(call.star, NextItem(k), tasks[k].special)]
    /\ UNCHANGED <<status, processes, pool, call, workers, nextChunk, mapresult,
                   nspecial, ret, ncalls, ctorArg,
                   lifeVars>>

\* func returns (its value is appended to the list) or raises; `nextpc` is
\* where the wrap function continues after a return, `swallow` whether an
\* exception of func is caught and the item left out
EndFuncTo(p, nextpc, swallow) ==
    /\ call.phase = "running"
    /\ workers[p].task # 0
    /\ LET k == workers[p].task IN
        /\ tasks[k].pc = "infunc"
        /\ \E ok \in BOOLEAN :
            IF ok
            THEN /\ tasks' = [tasks EXCEPT
                        ![k].out = Append(@, Func(tasks[k].cur)),
                        ![k].cur = << >>,
                        ![k].pc = nextpc]
                 /\ UNCHANGED <<workers, mapresult>>
            ELSE IF swallow
            THEN /\ tasks' = [tasks EXCEPT
                        ![k].subsequence =
                            [j \in 1..(Len(@) - 1) |->
                                IF j <= Len(tasks[k].out) THEN @[j] ELSE @[j + 1]],
                        ![k].cur = << >>,
                        ![k].raised = TRUE,
                        ![k].pc = nextpc]
                 /\ UNCHANGED <<workers, mapresult>>
            ELSE Raise(p, k)
    /\ UNCHANGED <<status, processes, pool, call, nextChunk, nspecial, ret,
                   ncalls, ctorArg,
                   lifeVars>>

\* a wrap function that builds the special object again for every item
EndFunc_rebuild(p) == EndFuncTo(p, "start", FALSE)

\* a wrap function that catches what func raises and goes on with the next item
EndFunc_swallow(p) == EndFuncTo(p, "loop", TRUE)

\* return [func(item, special) for item in subsequence]: one special for all items,
\* an exception of func leaves the wrap function
EndFunc(p) == EndFuncTo(p, "loop", FALSE)

\* the wrap function returns its list; the worker goes on with the next task of
\* its chunk, or reports the finished chunk to the MapResult
ReturnTask(p) ==
    /\ call.phase = "running"
    /\ workers[p].task # 0
    /\ LET k == workers[p].task
           c == workers[p].chunk
           first == ChunkFirst(c, call.chunksize)
       IN
        /\ tasks[k].pc = "loop"
        /\ Len(tasks[k].out) = Len(tasks[k].subsequence)
        /\ IF k < ChunkLast(c, call.chunksize, Len(tasks))
           THEN /\ tasks' = [tasks EXCEPT ![k].pc = "done", ![k + 1].pc = "start"]
                /\ workers' = [workers EXCEPT ![p].task = k + 1]
                /\ UNCHANGED mapresult
           ELSE /\ tasks' = [tasks EXCEPT ![k].pc = "done"]
                /\ workers' = [workers EXCEPT ![p].chunk = 0, ![p].task = 0]
                /\ mapresult' = _set(mapresult, c, TRUE,
                                     [j \in 1..(k - first + 1) |->
                                         tasks[first + j - 1].out], k)
    /\ UNCHANGED <<status, processes, pool, call, nextChunk, nspecial, ret,
                   ncalls, ctorArg,
                   lifeVars>>

(* ------------------------- gathering the results ----------------------- *)
\* the special_func calls made by the first n tasks of the current call
RECURSIVE FactoryCalls(_)
FactoryCalls(n) == IF n = 0 THEN 0 ELSE tasks[n].nfactory + FactoryCalls(n - 1)

\* pool.starmap blocks until the MapResult is ready: `ready` is that condition.
\* Then it returns the gathered lists (passed through _flatten_or_not) or
\* re-raises the stored exception.
ReturnWhen(ready) ==
    /\ call.phase = "running"
    /\ ready
    /\ IF mapresult.success
       THEN /\ call' = [call EXCEPT !.phase = "returned"]
            /\ ret' = [raised |-> FALSE,
                       value |-> _flatten_or_not(call.flatten,
                                    [k \in 1..Len(mapresult.value) |->
                                        mapresult.value[k].list])]
            /\ successes' = [n |-> successes.n + 1,
                             factory |-> successes.factory
                                           + FactoryCalls(Len(tasks))]
       ELSE /\ call' = [call EXCEPT !.phase = "raised"]
            /\ ret' = [raised |-> TRUE, value |-> << >>]
            /\ UNCHANGED successes
    /\ UNCHANGED <<status, processes, pool, tasks, workers, nextChunk, mapresult,
                   nspecial, ncalls, ctorArg, __dict__, shipped, scope>>

\* a gather that gives up as soon as one chunk has failed
Return_failfast == ReturnWhen(mapresult.number_left = 0 \/ ~mapresult.success)

\* the result is ready only once all chunks are done
Return == ReturnWhen(mapresult.number_left = 0)

(* ------------------------- the life cycle ------------------------------ *)
\* __enter__: the `with RequestsPool(...) as rp:` block is entered
__enter__ ==
    /\ status = "constructed"
    /\ scope.state = "out"
    /\ scope' = [scope EXCEPT !.state = "in"]
    /\ UNCHANGED <<status, processes, pool, call, tasks, workers, nextChunk,
                   mapresult, nspecial, ret, ncalls, ctorArg, __dict__, shipped,
                   successes>>

\* Pool.close(): a running pool stops taking work, anything else is left as is
close(pl) == IF pl.state = "RUN" THEN [pl EXCEPT !.state = "CLOSE"] ELSE pl

\* __exit__ is called, by the `with` block as it is left (with the exception
\* of its last call pending, when `exc`) or, after the block, by hand;
\* `closes` says whether it calls
\* self.pool.close(), `suppress` whether it returns a true value, which makes
\* the `with` statement drop the pending exception
ExitWith(exc, closes, suppress) ==
    /\ status = "constructed"
    /\ scope.state \in {"in", "done"}
    /\ exc = (scope.state = "in" /\ call.phase = "raised")
    /\ call.phase # "running"
    /\ scope.exits < MaxExits
    /\ pool' = IF closes THEN close(pool) ELSE pool
    /\ scope' = [state |-> "done",
                 propagated |-> IF scope.state = "in" THEN exc /\ ~suppress
                                ELSE scope.propagated,
                 exits |-> scope.exits + 1,
                 exitRaised |-> FALSE]
    /\ UNCHANGED <<status, processes, call, tasks, workers, nextChunk,
                   mapresult, nspecial, ret, ncalls, ctorArg, __dict__, shipped,
                   successes>>

\* an __exit__ that closes the pool only when the block ended without exception
__exit___cleanonly(exc) == ExitWith(exc, ~exc, FALSE)

\* an __exit__ that forgets to close the pool
__exit___noclose(exc) == ExitWith(exc, FALSE, FALSE)

\* __exit__(type_, value, traceback): self.pool.close(), returns None
__exit__(exc) == ExitWith(exc, TRUE, FALSE)

\* the worker handler of a closed pool with no work left sends every worker
\* process the sentinel, and the workers end: nothing is left of a process
\* but the fact that it ended
WorkersExit ==
    /\ pool.state = "CLOSE"
    /\ call.phase # "running"
    /\ \E p \in DOMAIN workers : workers[p].alive
    /\ workers' = [p \in DOMAIN workers |-> [IdleWorker EXCEPT !.alive = FALSE]]
    /\ UNCHANGED <<status, processes, pool, call, tasks, nextChunk, mapresult,
                   nspecial, ret, ncalls, ctorArg, lifeVars>>

(* ----------------------------------------------------------------------- *)
Next ==
    \/ \E given \in BOOLEAN, x \in -1..MaxProcs :
          (given \/ x = 0) /\ __init__(given, x)
    \/ \E it \in MapIterables, csGiven \in BOOLEAN, cs \in 1..MaxChunk,
          flatten \in BOOLEAN :
          (csGiven \/ cs = 1) /\ map(it, csGiven, cs, flatten)
    \/ \E it \in StarIterables, csGiven \in BOOLEAN, cs \in 1..MaxChunk,
          flatten \in BOOLEAN :
          (csGiven \/ cs = 1) /\ starmap(it, csGiven, cs, flatten)
    \/ \E p \in DOMAIN workers : TakeChunk(p)
    \/ \E p \in DOMAIN workers : CallSpecial(p)
    \/ \E p \in DOMAIN workers : BeginFunc(p)
    \/ \E p \in DOMAIN workers : EndFunc(p)
    \/ \E p \in DOMAIN workers : ReturnTask(p)
    \/ Return
    \/ __enter__
    \/ \E exc \in BOOLEAN : __exit__(exc)
    \/ WorkersExit

Spec == Init /\ [][Next]_vars

\* the pool's handler thread does send the sentinel to every worker of a
\* closed pool, and a worker that gets it does end
FairSpec == Spec /\ WF_vars(WorkersExit)

TypeOK ==
    /\ status \in {"new", "constructed", "ctor_error"}
    /\ call.phase \in {"idle", "running", "returned", "raised"}
    /\ nspecial \in Nat
    /\ \A k \in 1..Len(tasks) :
          tasks[k].pc \in {"queued", "start", "loop", "infunc", "done",
                           "failed", "skipped"}
    /\ pool.state \in {"NONE", "RUN", "CLOSE"}
    /\ scope.state \in {"out", "in", "done"}
    /\ scope.exits \in 0..MaxExits
    /\ scope.propagated \in BOOLEAN /\ scope.exitRaised \in BOOLEAN
    /\ call.rejected \in BOOLEAN
    /\ \A p \in DOMAIN workers : workers[p].alive \in BOOLEAN
    /\ successes.n \in 0..MaxCalls /\ successes.factory \in Nat
    /\ DOMAIN shipped \subseteq DOMAIN __dict__ \cup {"pool"}

(* ======================= properties ==================================== *)
\* the zero-based positions of an N-item sequence that fall into partition k
\* (1-based) of P, and the j-th smallest of a set of positions
PartIdx(N, P, k) == {i \in 0..(N - 1) : i % P = k - 1}
Nth(S, j) == CHOOSE x \in S : Cardinality({y \in S : y < x}) = j - 1

\* subsequence `sub` holds exactly the items of `iterable` at the positions of
\* partition k of P, in ascending position order
IsPartition(sub, iterable, P, k) ==
    /\ Len(sub) = Cardinality(PartIdx(Len(iterable), P, k))
    /\ \A j \in 1..Len(sub) :
          sub[j] = iterable[Nth(PartIdx(Len(iterable), P, k), j) + 1]

Started == call.phase # "idle" /\ ~call.rejected
Finished == call.phase \in {"returned", "raised"}
N == Len(call.iterable)
P == processes

\* C1: for every item sequence and every P >= 1 the partitioner yields exactly
\* P subsequences, subsequence k holding exactly the items whose zero-based
\* index i has i mod P = k, in ascending index order: this holds of the
\* subsequences every map()/starmap() call submits, of the split, for every
\* other P, of the iterable of each call as it is submitted, and items 1..10
\* with P = 3 give [1,4,7,10], [2,5,8], [3,6,9].
C1_SplitRoundRobin ==
    /\ Started =>
          /\ Len(tasks) = P
          /\ \A k \in 1..P :
                IsPartition(tasks[k].subsequence, call.iterable, P, k)
    /\ (nextChunk = 1) =>
          \A Q \in 1..(MaxProcs + 2) :
              LET parts == _split_items(call.iterable, Q)
              IN /\ Len(parts) = Q
                 /\ \A k \in 1..Q : IsPartition(parts[k], call.iterable, Q, k)
    /\ _split_items(<<1, 2, 3, 4, 5, 6, 7, 8, 9, 10>>, 3)
          = <<(<<1, 4, 7, 10>>), (<<2, 5, 8>>), (<<3, 6, 9>>)>>

\* a call whose three items were split over two tasks, the first holding two
C1_Witness ==
    /\ call.phase = "running"
    /\ P = 2
    /\ N = 3
    /\ Len(tasks[1].subsequence) = 2
    /\ Len(tasks[2].subsequence) = 1

RECURSIVE SumLen(_)
SumLen(seqs) == IF Len(seqs) = 0 THEN 0 ELSE Len(Head(seqs)) + SumLen(Tail(seqs))

Count(seq, v) == Cardinality({i \in DOMAIN seq : seq[i] = v})

RECURSIVE SumCount(_, _)
SumCount(seqs, v) ==
    IF Len(seqs) = 0 THEN 0 ELSE Count(Head(seqs), v) + SumCount(Tail(seqs), v)

Subsequences == [k \in 1..Len(tasks) |-> tasks[k].subsequence]

\* C2: the partitions of one call cover the input exactly: every item occurs in
\* the partitions as often as in the input (nothing duplicated, nothing left
\* out), every position belongs to exactly one partition, the partition sizes
\* sum to N, each size is floor(N/P) or ceil(N/P), and two sizes differ by at
\* most 1.
C2_PartitionsCoverExactly ==
    Started =>
        /\ SumLen(Subsequences) = N
        /\ \A i \in 1..N :
              SumCount(Subsequences, call.iterable[i])
                  = Count(call.iterable, call.iterable[i])
        /\ \A k \in 1..Len(tasks) : \A j \in 1..Len(tasks[k].subsequence) :
              \E i \in 1..N : tasks[k].subsequence[j] = call.iterable[i]
        /\ UNION {{(j - 1) * P + k : j \in 1..Len(tasks[k].subsequence)} :
                     k \in 1..Len(tasks)} = 1..N
        /\ \A k \in 1..Len(tasks) :
              Len(tasks[k].subsequence)
                  \in {N \div P, (N + P - 1) \div P}
        /\ \A k1, k2 \in 1..Len(tasks) :
              Len(tasks[k1].subsequence) - Len(tasks[k2].subsequence) <= 1

\* a call with fewer items than tasks: one task got the item, the other nothing
C2_Witness ==
    /\ Started
    /\ P = 2
    /\ N = 1
    /\ Len(tasks[1].subsequence) = 1
    /\ Len(tasks[2].subsequence) = 0

\* what the target function returns for the j-th item of task k
Expected(k, j) ==
    Func(FuncArgs(call.star, tasks[k].subsequence[j], tasks[k].special))

\* number of items in the partitions before partition k
Offset(k) == SumLen([i \in 1..(k - 1) |-> tasks[i].subsequence])

\* C3: with flatten=true the value returned is the concatenation, in
\* partition-index order, of each partition's result list, each in the item
\* order of its partition, whatever the order in which the tasks ran; for
\* P = 1 that is the original item order, and a,b,c,d,e with P = 2 comes back
\* in the order a,c,e,b,d.
C3_FlattenedOrder ==
    /\ (call.phase = "returned" /\ call.flatten) =>
          /\ Len(ret.value) = N
          /\ \A k \in 1..P : \A j \in 1..Len(tasks[k].subsequence) :
                ret.value[Offset(k) + j] = Expected(k, j)
          /\ \A k \in 1..P : \A j \in 1..Len(tasks[k].subsequence) :
                ret.value[Offset(k) + j].args[1]
                    = (IF call.star THEN call.iterable[(j - 1) * P + k][1]
                                    ELSE call.iterable[(j - 1) * P + k])
          /\ (P = 1) =>
                \A i \in 1..N :
                    ret.value[i] = Func(FuncArgs(call.star, call.iterable[i],
                                                 tasks[1].special))
    /\ _flatten_or_not(TRUE, _split_items(<<"a", "b", "c", "d", "e">>, 2))
          = <<"a", "c", "e", "b", "d">>

\* a flattened result of three items over two tasks where the second task
\* built its special object (so started) before the first one
C3_Witness ==
    /\ call.phase = "returned"
    /\ call.flatten
    /\ P = 2
    /\ N = 3
    /\ tasks[2].special[2] < tasks[1].special[2]

\* C4: with flatten=false the call returns exactly P sequences, one per
\* partition in partition-index order, an empty one for every empty
\* partition; an empty input gives P empty sequences (four for P = 4), and
\* with flatten=true an empty sequence.
C4_GroupedResult ==
    /\ (call.phase = "returned" /\ ~call.flatten) =>
          /\ Len(ret.value) = P
          /\ \A k \in 1..P :
                /\ Len(ret.value[k]) = Len(tasks[k].subsequence)
                /\ \A j \in 1..Len(tasks[k].subsequence) :
                      ret.value[k][j] = Expected(k, j)
    /\ (call.phase = "returned" /\ call.flatten /\ N = 0) => Len(ret.value) = 0
    /\ _flatten_or_not(FALSE, _split_items(<< >>, 4))
          = <<(<< >>), (<< >>), (<< >>), (<< >>)>>
    /\ _flatten_or_not(TRUE, _split_items(<< >>, 4)) = << >>

\* an un-flattened result with an empty partition next to a non-empty one
C4_Witness ==
    /\ call.phase = "returned"
    /\ ~call.flatten
    /\ P = 2
    /\ N = 1
    /\ Len(ret.value) = 2
    /\ Len(ret.value[1]) = 1
    /\ Len(ret.value[2]) = 0

\* the special object a result entry was computed with (the last argument)
SpecialOf(entry) == entry.args[Len(entry.args)]

\* the result entries handed back to the caller
ReturnedEntries ==
    IF call.flatten
    THEN {ret.value[i] : i \in 1..Len(ret.value)}
    ELSE UNION {{ret.value[k][j] : j \in 1..Len(ret.value[k])} :
                    k \in 1..Len(ret.value)}

RECURSIVE SumFactory(_)
SumFactory(n) == IF n = 0 THEN 0 ELSE tasks[n].nfactory + SumFactory(n - 1)

\* C5: a call submits exactly P worker tasks; no task ever invokes the
\* resource factory more than once, and when the call has returned
\* successfully every task has invoked it exactly once (P invocations in all),
\* the tasks of empty partitions included; the results of a call with N >= P
\* items then carry exactly P distinct resource instances.
C5_OneFactoryCallPerTask ==
    Started =>
        /\ Len(tasks) = P
        /\ \A k \in 1..Len(tasks) : tasks[k].nfactory <= 1
        /\ call.phase = "returned" =>
              /\ \A k \in 1..Len(tasks) : tasks[k].nfactory = 1
              /\ SumFactory(Len(tasks)) = P
              /\ Cardinality({tasks[k].special : k \in 1..Len(tasks)}) = P
              /\ (N >= P) =>
                    Cardinality({SpecialOf(e) : e \in ReturnedEntries}) = P

\* a successful call with one item and two tasks: the task of the empty
\* partition built its object too
C5_Witness ==
    /\ call.phase = "returned"
    /\ P = 2
    /\ N = 1
    /\ tasks[2].subsequence = << >>
    /\ tasks[2].nfactory = 1
    /\ tasks[2].special # NoSpecial

\* C6: every worker process of the pool has a unique and constant session
\* during a call: when a call has returned, each pool process has created
\* exactly one special object.
C6_OneSessionPerProcess ==
    call.phase = "returned" =>
        \A p \in DOMAIN workers : workers[p].built = 1

\* the special objects passed to the invocations of task k so far
UsedBy(k) ==
    {SpecialOf(tasks[k].out[j]) : j \in 1..Len(tasks[k].out)}
        \cup (IF tasks[k].pc = "infunc"
              THEN {tasks[k].cur[Len(tasks[k].cur)]} ELSE {})

\* C7: a special object is never shared: every invocation of the target
\* function for an item of partition k gets the object built by task k, no
\* object is passed to invocations of two different partitions, and no two
\* invocations in progress at the same time use the same object.
C7_SpecialNeverShared ==
    /\ \A k \in 1..Len(tasks) :
          /\ UsedBy(k) \subseteq {tasks[k].special}
          /\ UsedBy(k) # {} => tasks[k].nfactory >= 1 /\ tasks[k].special # NoSpecial
    /\ \A k1, k2 \in 1..Len(tasks) :
          k1 # k2 => UsedBy(k1) \cap UsedBy(k2) = {}
    /\ \A k1, k2 \in 1..Len(tasks) :
          (k1 # k2 /\ tasks[k1].pc = "infunc" /\ tasks[k2].pc = "infunc") =>
              tasks[k1].cur[Len(tasks[k1].cur)] # tasks[k2].cur[Len(tasks[k2].cur)]

\* two invocations in progress at once in two worker processes, the first
\* task already holding a result computed with its object
C7_Witness ==
    /\ call.phase = "running"
    /\ Len(tasks) = 2
    /\ tasks[1].pc = "infunc"
    /\ tasks[2].pc = "infunc"
    /\ Len(tasks[1].out) = 1

\* C8: all-or-nothing failure: once the resource factory or the target function
\* has raised in one of the worker tasks, the call can only end by raising and
\* the caller gets no result for any partition, also not for the partitions
\* whose tasks succeeded.
C8_AllOrNothing ==
    ((\E k \in 1..Len(tasks) : tasks[k].raised) /\ Finished) =>
        /\ call.phase = "raised"
        /\ ret.raised
        /\ ret.value = << >>

\* a call that raised although one task failed and the other one finished
\* with a result
C8_Witness ==
    /\ call.phase = "raised"
    /\ ret.raised
    /\ \E k1, k2 \in 1..Len(tasks) :
          /\ tasks[k1].pc = "failed"
          /\ tasks[k2].pc = "done"
          /\ Len(tasks[k2].out) >= 1

\* C9 as stated: the call gives control back only after every one of the P
\* worker tasks has finished, by returning or by failing.
C9_AllTasksFinished ==
    Finished => \A k \in 1..Len(tasks) : tasks[k].pc \in {"done", "failed"}

\* the chunk (1-based) a task belongs to
ChunkOf(k) == ((k - 1) \div call.chunksize) + 1

\* C9 amended: the call gives control back only after every chunk of worker
\* tasks is resolved: no worker is busy, and each task has returned, has
\* failed, or was never started because an earlier task of its own chunk
\* failed; the tasks of the other chunks are not cancelled by a failure, so
\* with chunksize 1 every task has finished.
C9_AllChunksResolved ==
    Finished =>
        /\ mapresult.number_left = 0
        /\ nextChunk > NChunks
        /\ \A p \in DOMAIN workers : workers[p].chunk = 0
        /\ \A k \in 1..Len(tasks) :
              /\ tasks[k].pc \in {"done", "failed", "skipped"}
              /\ tasks[k].pc = "skipped" =>
                    \E f \in 1..(k - 1) :
                        /\ tasks[f].pc = "failed"
                        /\ ChunkOf(f) = ChunkOf(k)
        /\ call.chunksize = 1 =>
              \A k \in 1..Len(tasks) : tasks[k].pc \in {"done", "failed"}

\* a call that raised after its first task failed, while the second task, in
\* another chunk, ran to its end
C9_Witness ==
    /\ call.phase = "raised"
    /\ call.chunksize = 1
    /\ Len(tasks) = 2
    /\ tasks[1].pc = "failed"
    /\ tasks[2].pc = "done"
    /\ Len(tasks[2].out) >= 1

\* C10: a constructor called with a worker count <= 0 reports an error itself,
\* and no pool and no worker process exists when it does.
C10_InvalidCountRejected ==
    (status # "new" /\ ctorArg.given /\ ctorArg.x <= 0) =>
        /\ status = "ctor_error"
        /\ pool.state = "NONE"
        /\ pool.size = 0
        /\ workers = << >>
        /\ ncalls = 0

\* the constructor was called with processes=0 and failed
C10_Witness ==
    /\ status = "ctor_error"
    /\ ctorArg.given
    /\ ctorArg.x = 0
    /\ pool.state = "NONE"

(* ----------------------- life cycle properties ------------------------- *)
Released == scope.exits >= 1
AllWorkersEnded ==
    /\ workers # << >>
    /\ \A p \in DOMAIN workers : ~workers[p].alive

\* C11 as stated: lifecycle misuse is reported as an error: a second release
\* raises, and a map/starmap call made after release raises without running a
\* worker task.
C11_SecondReleaseRaises ==
    /\ scope.exits >= 2 => scope.exitRaised
    /\ call.rejected => (call.phase = "raised" /\ tasks = << >>)

\* C11 amended: only a call after release is reported: no release ever raises,
\* a second release leaves the closed pool as it is, and every map/starmap call
\* made once the pool is closed raises at once, without submitting a task or
\* giving a worker anything to run.
C11_OnlyCallAfterReleaseRaises ==
    /\ [](/\ ~scope.exitRaised
          /\ Released => pool.state = "CLOSE"
          /\ pool.state = "CLOSE" => call.phase # "running"
          /\ call.rejected =>
                /\ call.phase = "raised"
                /\ ret.raised
                /\ tasks = << >>
                /\ \A p \in DOMAIN workers : workers[p].task = 0)
    /\ [][(Released /\ scope'.exits = scope.exits + 1) =>
              (pool' = pool /\ UNCHANGED <<call, tasks, workers, ret>>)]_vars
    /\ [][(pool.state = "CLOSE" /\ ncalls' = ncalls + 1) =>
              (call'.rejected /\ ret'.raised /\ tasks' = << >>
               /\ workers' = workers)]_vars

\* a pool released twice, and a call made on it afterwards
C11_Witness ==
    /\ scope.exits >= 2
    /\ ~scope.exitRaised
    /\ call.rejected
    /\ ret.raised

\* C12: a coordinator used as a `with` block is released on every way out of
\* the block: leaving the block, after a body that succeeded or one whose
\* map/starmap call failed, makes exactly one release, which closes the pool,
\* and the exception of the body reaches the caller once the release is made.
C12_ReleasedOnEveryExitPath ==
    /\ [](/\ scope.state = "in" => (scope.exits = 0 /\ pool.state = "RUN")
          /\ scope.state = "done" => (Released /\ pool.state = "CLOSE")
          /\ scope.propagated => (scope.state = "done" /\ call.phase = "raised"))
    /\ [][(scope.state = "in" /\ scope'.state = "done") =>
              /\ scope'.exits = 1
              /\ pool'.state = "CLOSE"
              /\ scope'.propagated = (call.phase = "raised")
              /\ UNCHANGED <<call, ret>>]_vars

\* a block left through the failure of a call: the pool is closed and the
\* exception is on its way to the caller
C12_Witness ==
    /\ scope.state = "done"
    /\ scope.exits = 1
    /\ scope.propagated
    /\ call.phase = "raised"
    /\ ~call.rejected
    /\ pool.state = "CLOSE"

\* C13 as stated: when the release returns every worker process of the pool has
\* terminated.
C13_WorkersEndedAtRelease == Released => AllWorkersEnded

\* C13 amended: the release only closes the pool and returns while the workers
\* are still alive (it does not join them); the workers of a released pool
\* end afterwards, all of them, and stay ended.
C13_WorkersEndAfterRelease ==
    /\ [][(scope'.exits = scope.exits + 1) => workers' = workers]_vars
    /\ [](AllWorkersEnded => Released)
    /\ [][AllWorkersEnded => AllWorkersEnded']_vars
    /\ (Released ~> AllWorkersEnded)

\* a released pool whose workers are all still alive
C13_Witness ==
    /\ Released
    /\ pool.state = "CLOSE"
    /\ workers # << >>
    /\ \A p \in DOMAIN workers : workers[p].alive

Shipped == DOMAIN shipped # {}

\* C14 as stated: the serialized state holds the worker count, the resource
\* factory with its arguments and the initializer with its arguments, and
\* never the pool.
C14_StateWithInitializer ==
    Shipped =>
        DOMAIN shipped = {"processes", "special_func", "special_args",
                          "special_kwargs", "initializer", "initargs"}

\* C14 amended: the serialized state holds exactly the worker count and the
\* resource factory with its positional and keyword arguments, with the values
\* the coordinator has, and never the pool; the initializer and its arguments
\* are given to the pool only and are no part of the state.
C14_StateWithoutPool ==
    Shipped =>
        /\ DOMAIN shipped = {"processes", "special_func", "special_args",
                             "special_kwargs"}
        /\ shipped.processes = processes
        /\ shipped.special_func = SpecialFunc
        /\ \A a \in DOMAIN shipped : shipped[a] = __dict__[a]
        /\ "pool" \in DOMAIN __dict__
        /\ pool.initializer = Initializer

\* a state pickled for a call, while the coordinator itself holds its pool
C14_Witness ==
    /\ Shipped
    /\ call.phase = "running"
    /\ "pool" \in DOMAIN __dict__
    /\ "pool" \notin DOMAIN shipped
    /\ shipped.processes = 2

(* --------------------- dispatch and task properties -------------------- *)
\* the arguments of a result entry that come from the item (all but the last)
ItemArgs(entry) == SubSeq(entry.args, 1, Len(entry.args) - 1)

\* a returned value with the special objects left out of its entries
Plain(value, flatten) ==
    IF flatten
    THEN [i \in 1..Len(value) |-> ItemArgs(value[i])]
    ELSE [k \in 1..Len(value) |->
            [j \in 1..Len(value[k]) |-> ItemArgs(value[k][j])]]

\* the value, special objects left out, that the items, the worker count and
\* the flatten mode determine: the chunk size is no part of it
PlainExpected(star, iterable, n, flatten) ==
    LET lists == [k \in 1..n |->
                    [j \in 1..Cardinality(PartIdx(Len(iterable), n, k)) |->
                        IF star THEN iterable[(j - 1) * n + k]
                        ELSE <<iterable[(j - 1) * n + k]>>]]
    IN IF flatten THEN Concat(lists) ELSE lists

C16_MapStarmapItemPassing ==
    Started =>
        /\ \A k \in 1..Len(tasks) :
              /\ tasks[k].pc = "infunc" =>
                    LET args == tasks[k].cur
                        item == tasks[k].subsequence[Len(tasks[k].out) + 1]
                    IN /\ args[Len(args)] = tasks[k].special
                       /\ call.star =>
                             /\ Len(args) = Len(item) + 1
                             /\ \A i \in 1..Len(item) : args[i] = item[i]
                       /\ ~call.star =>
                             /\ Len(args) = 2
                             /\ args[1] = item
              /\ \A j \in 1..Len(tasks[k].subsequence) :
                    tasks[k].subsequence[j] = call.iterable[(j - 1) * P + k]
              /\ \A j \in 1..Len(tasks[k].out) :
                    SpecialOf(tasks[k].out[j]) = tasks[k].special
        /\ call.phase = "returned" =>
              /\ call.flatten => Len(ret.value) = N
              /\ ~call.flatten =>
                    /\ Len(ret.value) = P
                    /\ \A k \in 1..P :
                          Len(ret.value[k]) = Len(tasks[k].subsequence)

\* a starmap call inside the function: the item's two elements and the
\* special object make three arguments
C16_Witness ==
    /\ call.phase = "running"
    /\ call.star
    /\ \E k \in 1..Len(tasks) :
          /\ tasks[k].pc = "infunc"
          /\ Len(tasks[k].cur) = 3
          /\ tasks[k].cur[2] = Timeout
          /\ tasks[k].cur[3] = tasks[k].special

\* C17: the steps of a worker task are ordered: the resource factory is called
\* once and before the first call of the function, the function is then called
\* on the items of the partition one at a time in partition order, and entry j
\* of the list the task returns is the result for the j-th item.
C17_TaskStepsOrdered ==
    Started =>
        \A k \in 1..Len(tasks) :
            /\ tasks[k].ninvoked > 0 => tasks[k].nfactory = 1
            /\ tasks[k].pc \in {"loop", "infunc", "done"} =>
                  /\ tasks[k].nfactory = 1
                  /\ tasks[k].special # NoSpecial
            /\ tasks[k].pc = "infunc" =>
                  /\ tasks[k].ninvoked = Len(tasks[k].out) + 1
                  /\ tasks[k].cur[1] =
                        (IF call.star
                         THEN tasks[k].subsequence[tasks[k].ninvoked][1]
                         ELSE tasks[k].subsequence[tasks[k].ninvoked])
            /\ tasks[k].pc \in {"loop", "done"} =>
                  tasks[k].ninvoked = Len(tasks[k].out)
            /\ \A j \in 1..Len(tasks[k].out) :
                  tasks[k].out[j] = Expected(k, j)
            /\ tasks[k].pc = "done" =>
                  Len(tasks[k].out) = Len(tasks[k].subsequence)

\* a task that returned the results of its two items
C17_Witness ==
    /\ call.phase = "running"
    /\ \E k \in 1..Len(tasks) :
          /\ tasks[k].pc = "done"
          /\ Len(tasks[k].subsequence) = 2
          /\ tasks[k].ninvoked = 2
          /\ tasks[k].out[2] = Expected(k, 2)
          /\ tasks[k].out[1] # tasks[k].out[2]

\* C18 as stated: a task whose factory raises calls the function on no item, a
\* task whose function raises handles no later item and yields no list, and in
\* both cases every other task builds its object and handles all its items.
C18_OtherTasksUnaffected ==
    (Finished /\ ~call.rejected) =>
        \A k \in 1..Len(tasks) :
            /\ (tasks[k].raised /\ tasks[k].special = NoSpecial) =>
                  tasks[k].ninvoked = 0
            /\ tasks[k].raised => tasks[k].out = << >>
            /\ ~tasks[k].raised =>
                  /\ tasks[k].nfactory = 1
                  /\ tasks[k].ninvoked = Len(tasks[k].subsequence)
                  /\ Len(tasks[k].out) = Len(tasks[k].subsequence)

\* C18 amended: a task whose factory raises calls the function on no item; a
\* task whose function raises handles no later item and yields no list; the
\* tasks of the other chunks are unaffected, build their object and handle all
\* their items, but the later tasks of the failed task's own chunk are never
\* started; with chunksize 1 every other task runs to its end.
C18_FailFastPerTask ==
    /\ [](\A k \in 1..Len(tasks) :
            /\ (tasks[k].raised /\ tasks[k].special = NoSpecial) =>
                  tasks[k].ninvoked = 0
            /\ tasks[k].raised =>
                  /\ tasks[k].pc = "failed"
                  /\ tasks[k].out = << >>
                  /\ tasks[k].cur = << >>
            /\ tasks[k].pc = "skipped" =>
                  /\ tasks[k].nfactory = 0
                  /\ tasks[k].ninvoked = 0
                  /\ \E f \in 1..(k - 1) :
                        /\ tasks[f].raised
                        /\ ChunkOf(f) = ChunkOf(k)
            /\ (Finished /\ ~tasks[k].raised /\ tasks[k].pc # "skipped") =>
                  /\ tasks[k].pc = "done"
                  /\ tasks[k].nfactory = 1
                  /\ tasks[k].ninvoked = Len(tasks[k].subsequence)
                  /\ Len(tasks[k].out) = Len(tasks[k].subsequence)
            /\ (Finished /\ call.chunksize = 1) => tasks[k].pc # "skipped")
    /\ [][ncalls' = ncalls =>
            \A k \in 1..Len(tasks) :
                tasks[k].raised => tasks'[k] = tasks[k]]_vars

\* a call that raised: the first task failed in the function on its second
\* item, the task of the other chunk handled both its items
C18_Witness ==
    /\ call.phase = "raised"
    /\ ~call.rejected
    /\ call.chunksize = 1
    /\ Len(tasks) = 2
    /\ tasks[1].raised
    /\ tasks[1].ninvoked = 2
    /\ tasks[1].out = << >>
    /\ tasks[2].pc = "done"

\* C19: the special objects are bound for one call only: every call builds
\* its own, so that after k successful calls the factory has been called k * P
\* times in them, and no object built in one call is passed to the function in
\* another call.
C19_BindingPerCall ==
    /\ status = "constructed" => successes.factory = successes.n * P
    /\ \A k \in 1..Len(tasks) :
          /\ tasks[k].special # NoSpecial => tasks[k].special[1] = ncalls
          /\ tasks[k].cur # << >> =>
                tasks[k].cur[Len(tasks[k].cur)][1] = ncalls
          /\ \A j \in 1..Len(tasks[k].out) :
                SpecialOf(tasks[k].out[j])[1] = ncalls
    /\ call.phase = "returned" =>
          \A e \in ReturnedEntries : SpecialOf(e)[1] = ncalls

\* two successful calls on a coordinator of two processes: four objects built
C19_Witness ==
    /\ call.phase = "returned"
    /\ ncalls = 2
    /\ successes.n = 2
    /\ P = 2
    /\ successes.factory = 4
    /\ N >= 1

\* C20: pickling the coordinator's state, which every map/starmap call does
\* for its wrap function, leaves the coordinator as it is: it keeps its pool
\* and its configuration, and until it is released every further call is
\* taken by the pool.
C20_PicklingLeavesCoordinator ==
    /\ [](status = "constructed" =>
            /\ DOMAIN __dict__ = {"processes", "special_func", "special_args",
                                  "special_kwargs", "pool"}
            /\ __dict__.processes = processes
            /\ __dict__.special_func = SpecialFunc
            /\ __dict__.pool = "Pool"
            /\ ~Released => pool.state = "RUN")
    /\ [][ncalls' = ncalls + 1 =>
            /\ __dict__' = __dict__
            /\ pool' = pool
            /\ processes' = processes
            /\ ~Released => (~call'.rejected /\ call'.phase = "running"
                             /\ Len(tasks') = P)]_vars

\* a second call running on a coordinator whose first call returned
C20_Witness ==
    /\ ncalls = 2
    /\ successes.n = 1
    /\ call.phase = "running"
    /\ ~call.rejected
    /\ ~Released
    /\ Shipped
    /\ "pool" \in DOMAIN __dict__

====
